---- MODULE Spec2Model ----
(***************************************************************************)
(* Model of image_handler_commons/storage.py: BaseStorageBackend (the      *)
(* put/delete template methods, the key policy and the two hooks) and      *)
(* S3StorageBackend (the adapter onto the boto3 client), driven by a few   *)
(* cooperative caller tasks whose blocking client calls run on worker      *)
(* threads (asyncio.to_thread).                                            *)
(*                                                                         *)
(* Strings are sequences of one-character strings, byte strings are        *)
(* sequences of 0..255.  Python values that cross the interface are        *)
(* records with the fields type, str, data, pos.                           *)
(*                                                                         *)
(* The S3 service is the bucket `store` (key -> bytes).  A client request  *)
(* either is served or fails with an injected botocore exception class:    *)
(* ClientError (an error response of the service) or BotoCoreError (no     *)
(* response at all: connection, timeout, parameter validation).            *)
(* secrets.token_hex is modelled as a draw without replacement from a      *)
(* pool of byte strings: 128 random bits never repeat.                     *)
(***************************************************************************)
EXTENDS Integers, Sequences, FiniteSets

VARIABLES store, drawn, task, ncalls, known, uploads, deleteReqs

vars == <<store, drawn, task, ncalls, known, uploads, deleteReqs>>

(* ------------------------ bounds and constants ------------------------ *)

NumTasks == 2

MaxCalls == 3

NumDraws == 2

TokenBytes == 16

Tasks == 1..NumTasks

(* ------------------------- Python values ------------------------------ *)

PyNone == [type |-> "NoneType", str |-> <<>>, data |-> <<>>, pos |-> 0]

PyStr(s) == [type |-> "str", str |-> s, data |-> <<>>, pos |-> 0]

BytesIO(bytes) == [type |-> "BytesIO", str |-> <<>>, data |-> bytes, pos |-> 0]

IsStr(v) == v.type = "str"

\* file.read(): the bytes from the current position to the end
Read(obj) == SubSeq(obj.data, obj.pos + 1, Len(obj.data))

(* ---------------------------- inputs ---------------------------------- *)

Blobs == {BytesIO(<<137, 80>>), BytesIO(<<255>>)}

Filenames == {<<>>, <<"a", "-", "b">>}

\* "nonexistent-key": a well-formed string that no put ever generated
ArbitraryKeys == {<<"n", "o", "n", "e", "x", "i", "s", "t", "e", "n", "t", "-", "k", "e", "y">>}

\* outcomes of one request to the client, as injected failures
Faults == {"none", "ClientError", "BotoCoreError"}

\* what an overriding post hook may do; the default hook passes
HookOutcomes == {"pass", "raise"}

(* -------------------------- key policy -------------------------------- *)

HexDigits == <<"0", "1", "2", "3", "4", "5", "6", "7", "8", "9", "a", "b", "c", "d", "e", "f">>

\* binascii.hexlify: two lowercase hex digits per byte, high nibble first
hexlify(bytes) ==
    [i \in 1..(2 * Len(bytes)) |->
        IF i % 2 = 1 THEN HexDigits[(bytes[(i + 1) \div 2] \div 16) + 1]
                     ELSE HexDigits[(bytes[i \div 2] % 16) + 1]]

\* the byte strings the random source may deliver for a request of n bytes
EntropyPool(n) == {[i \in 1..n |-> (s * 97 + i * 53) % 256] : s \in 1..NumDraws}

\* secrets.token_hex(nbytes), given the random bytes drawn
token_hex(rnd) == hexlify(rnd)

generate_object_key_NoPrefix(filename, rnd) == filename

generate_object_key_ShortToken(filename, rnd) ==
    token_hex(SubSeq(rnd, 1, TokenBytes \div 2)) \o <<"-">> \o filename

generate_object_key(filename, rnd) == token_hex(rnd) \o <<"-">> \o filename

(* --------------------------- call records ----------------------------- *)

\* what the worker thread did: the exception class the client raised (exc),
\* what left the thread (raised), the value returned (val); hit and again
\* record whether the key held an object, and whether a delete of the key
\* had been served before, when the request was made
NoThread ==
    [exc |-> "pending", raised |-> "pending", val |-> PyNone, hit |-> FALSE, again |-> FALSE]

NoResult == [kind |-> "pending", key |-> PyNone]

IdleCall ==
    [op |-> "none", pc |-> "idle", id |-> 0, handleOf |-> 0, key |-> PyNone, obj |-> PyNone,
     filename |-> <<>>, fault |-> "none", thr |-> NoThread, result |-> NoResult,
     ret |-> PyNone, reqs |-> 0, keysGen |-> 0, hooks |-> <<>>]

NewCall(op, pc, key, obj, filename, keysGen, handleOf) ==
    [IdleCall EXCEPT !.op = op, !.pc = pc, !.id = ncalls + 1, !.handleOf = handleOf, !.key = key,
                     !.obj = obj, !.filename = filename, !.keysGen = keysGen]

CanStart(t) == task[t].pc \in {"idle", "done"} /\ ncalls < MaxCalls

Begin(t, call) ==
    /\ task' = [task EXCEPT ![t] = call]
    /\ ncalls' = ncalls + 1

\* the keys a caller may pass: any string it can have learnt, a made-up
\* one, and whatever its own last put_object returned to it
\* (handleOf names the put call whose return value is passed, else 0)
KeyArgs(t) ==
    {[v |-> PyStr(k), handleOf |-> 0] : k \in known \cup ArbitraryKeys}
        \cup (IF task[t].op = "put" /\ task[t].result.kind = "ok"
                THEN {[v |-> task[t].ret, handleOf |-> task[t].id]} ELSE {})

Raise(kind, key) == [kind |-> kind, key |-> key]

Finish(t, result, ret) ==
    task' = [task EXCEPT ![t].pc = "done", ![t].result = result, ![t].ret = ret]

Init ==
    /\ store = [k \in {} |-> <<>>]
    /\ drawn = {}
    /\ task = [t \in Tasks |-> IdleCall]
    /\ ncalls = 0
    /\ known = {}
    /\ uploads = {}
    /\ deleteReqs = {}

(* ------------------------------ bucket -------------------------------- *)

BucketPut(key, bytes) ==
    [k \in (DOMAIN store) \cup {key} |-> IF k = key THEN bytes ELSE store[k]]

BucketDelete(key) == [k \in (DOMAIN store) \ {key} |-> store[k]]

(* ------------------------- put_object --------------------------------- *)

\* put_object up to its first suspension, with the hook run before the
\* transfer (lines 21 and 22 exchanged)
put_object_HookFirst(t, obj, filename, rnd) ==
    /\ CanStart(t)
    /\ rnd \notin drawn
    /\ LET key == generate_object_key(filename, rnd) IN
        /\ Begin(t, NewCall("put", "post_put", PyStr(key), obj, filename, 1, 0))
        /\ known' = known \cup {key}
    /\ drawn' = drawn \cup {rnd}
    /\ UNCHANGED <<store, uploads, deleteReqs>>

\* put_object up to its first suspension: the key is generated and the
\* upload is handed to a worker thread
put_object(t, obj, filename, rnd) ==
    /\ CanStart(t)
    /\ rnd \notin drawn
    /\ LET key == generate_object_key(filename, rnd) IN
        /\ Begin(t, NewCall("put", "put_thread", PyStr(key), obj, filename, 1, 0))
        /\ known' = known \cup {key}
    /\ drawn' = drawn \cup {rnd}
    /\ UNCHANGED <<store, uploads, deleteReqs>>

\* the worker thread: client.put_object(Bucket, Key, Body=obj)
client_put_object(t, fault) ==
    /\ task[t].pc = "put_thread"
    /\ LET key == task[t].key.str
           bytes == Read(task[t].obj) IN
        /\ IF fault = "none"
             THEN /\ store' = BucketPut(key, bytes)
                  /\ uploads' = uploads \cup {[id |-> task[t].id, key |-> key, data |-> bytes]}
             ELSE UNCHANGED <<store, uploads>>
        /\ task' = [task EXCEPT ![t].pc = "put_await",
                                ![t].fault = fault,
                                ![t].reqs = @ + 1,
                                ![t].thr = [NoThread EXCEPT !.exc = fault, !.raised = fault]]
    /\ UNCHANGED <<drawn, ncalls, known, deleteReqs>>

\* perform_put_object resuming, with the upload issued again after a
\* ClientError
perform_put_object_Retry(t) ==
    /\ task[t].pc = "put_await"
    /\ IF task[t].thr.raised = "none"
         THEN task' = [task EXCEPT ![t].pc = "post_put"]
         ELSE IF task[t].thr.raised = "ClientError"
           THEN task' = [task EXCEPT ![t].pc = "put_thread"]
           ELSE Finish(t, Raise(task[t].thr.raised, PyNone), PyNone)
    /\ UNCHANGED <<store, drawn, ncalls, known, uploads, deleteReqs>>

\* perform_put_object resuming from the worker thread: a ClientError becomes
\* StorageError, anything else the thread raised passes through
perform_put_object(t) ==
    /\ task[t].pc = "put_await"
    /\ IF task[t].thr.raised = "none"
         THEN task' = [task EXCEPT ![t].pc = "post_put"]
         ELSE IF task[t].thr.raised = "ClientError"
           THEN Finish(t, Raise("StorageError", task[t].key), PyNone)
           ELSE Finish(t, Raise(task[t].thr.raised, PyNone), PyNone)
    /\ UNCHANGED <<store, drawn, ncalls, known, uploads, deleteReqs>>

\* the hook and the end of put_object: no return statement, so the call
\* evaluates to None
post_put_object(t, outcome) ==
    /\ task[t].pc = "post_put"
    /\ task' = [task EXCEPT
            ![t].pc = "done",
            ![t].hooks = Append(@, [hook |-> "post_put_object", key |-> task[t].key,
                                    outcome |-> outcome]),
            ![t].result = IF outcome = "raise" THEN Raise("HookError", PyNone)
                                               ELSE Raise("ok", PyNone),
            ![t].ret = PyNone]
    /\ UNCHANGED <<store, drawn, ncalls, known, uploads, deleteReqs>>

(* ------------------------- get_object --------------------------------- *)

\* get_object up to its suspension in asyncio.to_thread
get_object(t, key) ==
    /\ CanStart(t)
    /\ Begin(t, NewCall("get", "get_thread", key.v, PyNone, <<>>, 0, key.handleOf))
    /\ UNCHANGED <<store, drawn, known, uploads, deleteReqs>>

\* what client.get_object raises: a non-string Key fails parameter
\* validation before any request, a missing key is NoSuchKey
ClientGetExc(key, fault) ==
    IF ~IsStr(key) THEN "BotoCoreError"
    ELSE IF fault \in {"ClientError", "BotoCoreError"} THEN fault
    ELSE IF key.str \notin DOMAIN store THEN "NoSuchKey"
    ELSE "none"

\* _get_object_sync without the NoSuchKey clause: NoSuchKey is a ClientError
\* and is caught by the second clause
get_object_sync_NoSuchKeyUncaught(t, fault) ==
    /\ task[t].pc = "get_thread"
    /\ LET key == task[t].key
           exc == ClientGetExc(key, fault)
           hit == IsStr(key) /\ key.str \in DOMAIN store
           raised == IF exc \in {"NoSuchKey", "ClientError"} THEN "StorageError"
                     ELSE IF exc = "BotoCoreError" THEN "BotoCoreError"
                     ELSE IF fault = "ReadError" THEN "BotoCoreError"
                     ELSE "none"
           val == IF raised = "none" THEN BytesIO(store[key.str]) ELSE PyNone IN
        task' = [task EXCEPT ![t].pc = "get_await",
                             ![t].fault = fault,
                             ![t].reqs = @ + 1,
                             ![t].thr = [NoThread EXCEPT !.exc = exc, !.raised = raised,
                                                            !.val = val, !.hit = hit]]
    /\ UNCHANGED <<store, drawn, ncalls, known, uploads, deleteReqs>>

\* _get_object_sync on the worker thread: the request inside try, the body
\* read after it
get_object_sync(t, fault) ==
    /\ task[t].pc = "get_thread"
    /\ LET key == task[t].key
           exc == ClientGetExc(key, fault)
           hit == IsStr(key) /\ key.str \in DOMAIN store
           raised == IF exc = "NoSuchKey" THEN "FileNotFoundError"
                     ELSE IF exc = "ClientError" THEN "StorageError"
                     ELSE IF exc = "BotoCoreError" THEN "BotoCoreError"
                     ELSE IF fault = "ReadError" THEN "BotoCoreError"
                     ELSE "none"
           val == IF raised = "none" THEN BytesIO(store[key.str]) ELSE PyNone IN
        task' = [task EXCEPT ![t].pc = "get_await",
                             ![t].fault = fault,
                             ![t].reqs = @ + 1,
                             ![t].thr = [NoThread EXCEPT !.exc = exc, !.raised = raised,
                                                            !.val = val, !.hit = hit]]
    /\ UNCHANGED <<store, drawn, ncalls, known, uploads, deleteReqs>>

\* get_object resuming: returns what the thread returned, raises what it
\* raised
get_object_return(t) ==
    /\ task[t].pc = "get_await"
    /\ IF task[t].thr.raised = "none"
         THEN Finish(t, Raise("ok", PyNone), task[t].thr.val)
         ELSE Finish(t, Raise(task[t].thr.raised,
                              IF task[t].thr.raised = "StorageError" THEN task[t].key ELSE PyNone),
                     PyNone)
    /\ UNCHANGED <<store, drawn, ncalls, known, uploads, deleteReqs>>

(* ------------------------ delete_object ------------------------------- *)

\* delete_object up to its suspension in asyncio.to_thread
delete_object(t, key) ==
    /\ CanStart(t)
    /\ Begin(t, NewCall("delete", "delete_thread", key.v, PyNone, <<>>, 0, key.handleOf))
    /\ UNCHANGED <<store, drawn, known, uploads, deleteReqs>>

\* the worker thread with an existence check in the style of
\* _get_object_sync: a missing key raises FileNotFoundError
client_delete_object_NotFound(t, fault) ==
    /\ task[t].pc = "delete_thread"
    /\ LET key == task[t].key
           hit == IsStr(key) /\ key.str \in DOMAIN store
           exc == IF ~IsStr(key) THEN "BotoCoreError"
                  ELSE IF fault # "none" THEN fault
                  ELSE IF ~hit THEN "NoSuchKey" ELSE "none"
           raised == IF exc = "NoSuchKey" THEN "FileNotFoundError" ELSE exc IN
        /\ IF exc = "none"
             THEN /\ store' = BucketDelete(key.str)
                  /\ deleteReqs' = deleteReqs \cup {key.str}
             ELSE UNCHANGED <<store, deleteReqs>>
        /\ task' = [task EXCEPT ![t].pc = "delete_await",
                                ![t].fault = fault,
                                ![t].reqs = @ + 1,
                                ![t].thr = [NoThread EXCEPT !.exc = exc, !.raised = raised,
                                                            !.hit = hit,
                                                            !.again = IsStr(key) /\ key.str \in deleteReqs]]
    /\ UNCHANGED <<drawn, ncalls, known, uploads>>

\* the worker thread: client.delete_object(Bucket, Key); the service
\* answers a delete of a missing key like any other delete
client_delete_object(t, fault) ==
    /\ task[t].pc = "delete_thread"
    /\ LET key == task[t].key
           hit == IsStr(key) /\ key.str \in DOMAIN store
           exc == IF ~IsStr(key) THEN "BotoCoreError" ELSE fault IN
        /\ IF exc = "none"
             THEN /\ store' = BucketDelete(key.str)
                  /\ deleteReqs' = deleteReqs \cup {key.str}
             ELSE UNCHANGED <<store, deleteReqs>>
        /\ task' = [task EXCEPT ![t].pc = "delete_await",
                                ![t].fault = fault,
                                ![t].reqs = @ + 1,
                                ![t].thr = [NoThread EXCEPT !.exc = exc, !.raised = exc,
                                                            !.hit = hit,
                                                            !.again = IsStr(key) /\ key.str \in deleteReqs]]
    /\ UNCHANGED <<drawn, ncalls, known, uploads>>

\* perform_delete_object resuming, with the hook run whether or not the
\* delete succeeded (try/finally)
perform_delete_object_HookAlways(t) ==
    /\ task[t].pc = "delete_await"
    /\ task' = [task EXCEPT ![t].pc = "post_delete"]
    /\ UNCHANGED <<store, drawn, ncalls, known, uploads, deleteReqs>>

\* perform_delete_object resuming from the worker thread
perform_delete_object(t) ==
    /\ task[t].pc = "delete_await"
    /\ IF task[t].thr.raised = "none"
         THEN task' = [task EXCEPT ![t].pc = "post_delete"]
         ELSE IF task[t].thr.raised = "ClientError"
           THEN Finish(t, Raise("StorageError", task[t].key), PyNone)
           ELSE Finish(t, Raise(task[t].thr.raised, PyNone), PyNone)
    /\ UNCHANGED <<store, drawn, ncalls, known, uploads, deleteReqs>>

\* the hook and the end of delete_object
post_delete_object(t, outcome) ==
    /\ task[t].pc = "post_delete"
    /\ task' = [task EXCEPT
            ![t].pc = "done",
            ![t].hooks = Append(@, [hook |-> "post_delete_object", key |-> task[t].key,
                                    outcome |-> outcome]),
            ![t].result = IF outcome = "raise" THEN Raise("HookError", PyNone)
                                               ELSE Raise("ok", PyNone),
            ![t].ret = PyNone]
    /\ UNCHANGED <<store, drawn, ncalls, known, uploads, deleteReqs>>

(* --------------------------- specification ---------------------------- *)

Next ==
    \E t \in Tasks :
        \/ \E obj \in Blobs, filename \in Filenames, rnd \in EntropyPool(TokenBytes) :
               put_object(t, obj, filename, rnd)
        \/ \E fault \in Faults : client_put_object(t, fault)
        \/ perform_put_object(t)
        \/ \E outcome \in HookOutcomes : post_put_object(t, outcome)
        \/ \E key \in KeyArgs(t) : get_object(t, key)
        \/ \E fault \in Faults \cup {"ReadError"} : get_object_sync(t, fault)
        \/ get_object_return(t)
        \/ \E key \in KeyArgs(t) : delete_object(t, key)
        \/ \E fault \in Faults : client_delete_object(t, fault)
        \/ perform_delete_object(t)
        \/ \E outcome \in HookOutcomes : post_delete_object(t, outcome)

Spec == Init /\ [][Next]_vars

(* ------------------------------ claims -------------------------------- *)

Done(t) == task[t].pc = "done"

HookRaised(t) == \E i \in 1..Len(task[t].hooks) : task[t].hooks[i].outcome = "raise"

Stored(key, bytes) == key \in DOMAIN store /\ store[key] = bytes

LowerHex == {HexDigits[i] : i \in 1..16}

\* C1: every successful put_object returns the key it generated, the string
\* given to perform_put_object and post_put_object.
PutReturnsKey ==
    \A t \in Tasks :
        (task[t].op = "put" /\ Done(t) /\ task[t].result.kind = "ok")
            => task[t].ret = task[t].key

\* C2: round trip. A get_object of the value a successful put_object
\* returned, served without a client failure and with no delete of the
\* object, returns a blob byte-equal to the one that was put.
RoundTrip ==
    \A t \in Tasks :
        (task[t].op = "get" /\ Done(t) /\ task[t].handleOf # 0 /\ task[t].fault = "none")
            => \A u \in uploads :
                   (u.id = task[t].handleOf /\ u.key \notin deleteReqs)
                       => /\ task[t].result.kind = "ok"
                          /\ task[t].ret.type = "BytesIO"
                          /\ task[t].ret.data = u.data

\* C3: get_object of a key that holds no object, when the client reports no
\* other failure, fails with the not-found kind (FileNotFoundError), which is
\* not StorageError, and no step of a get_object call changes the bucket.
GetNotFound ==
    /\ [](\A t \in Tasks :
            (/\ task[t].op = "get"
             /\ task[t].pc \in {"get_await", "done"}
             /\ IsStr(task[t].key)
             /\ task[t].fault = "none"
             /\ ~task[t].thr.hit)
                => /\ task[t].thr.raised = "FileNotFoundError"
                   /\ Done(t) => /\ task[t].result.kind = "FileNotFoundError"
                                 /\ task[t].result.kind # "StorageError")
    /\ [][\A t \in Tasks :
            (task[t].pc \in {"get_thread", "get_await"} /\ task'[t] # task[t])
                => store' = store]_vars

\* a get_object of a key that was stored and then deleted has ended not-found
GetNotFoundWitness ==
    \E t \in Tasks :
        /\ task[t].op = "get" /\ Done(t)
        /\ task[t].result.kind = "FileNotFoundError"
        /\ task[t].key.str \in deleteReqs
        /\ \E u \in uploads : u.key = task[t].key.str

\* C4: whenever the client call of a get, put or delete fails for a reason
\* other than not-found on get, the operation fails with StorageError
\* carrying the operation's key.
ErrorsWrapped ==
    \A t \in Tasks :
        (/\ Done(t)
         /\ \/ task[t].thr.exc \in {"ClientError", "BotoCoreError"}
            \/ task[t].thr.exc = "NoSuchKey" /\ task[t].op # "get"
            \/ task[t].fault = "ReadError" /\ task[t].thr.exc = "none")
            => /\ task[t].result.kind = "StorageError"
               /\ task[t].result.key = task[t].key

\* C5: delete_object never surfaces the not-found kind; on a key that holds
\* no object, when the client reports no failure, the delete is served, the
\* call succeeds (unless an overriding hook raises) and the bucket is
\* unchanged.
DeleteIdempotent ==
    /\ [](\A t \in Tasks :
            (task[t].op = "delete" /\ task[t].pc \in {"delete_await", "post_delete", "done"})
                => /\ task[t].thr.raised # "FileNotFoundError"
                   /\ task[t].result.kind # "FileNotFoundError"
                   /\ (IsStr(task[t].key) /\ ~task[t].thr.hit /\ task[t].fault = "none")
                        => /\ task[t].thr.raised = "none"
                           /\ Done(t) => task[t].result.kind =
                                            IF HookRaised(t) THEN "HookError" ELSE "ok")
    /\ [][\A t \in Tasks :
            (/\ task[t].pc = "delete_thread"
             /\ task'[t].pc = "delete_await"
             /\ ~task'[t].thr.hit)
                => store' = store]_vars

\* a second delete_object of a key that was stored and deleted has succeeded
DeleteTwiceWitness ==
    \E t \in Tasks :
        /\ task[t].op = "delete" /\ Done(t)
        /\ task[t].result.kind = "ok"
        /\ task[t].thr.again /\ ~task[t].thr.hit
        /\ \E u \in uploads : u.key = task[t].key.str

\* C6: in every put_object call the hook starts only after the transfer has
\* completed (the object was stored under the call's key); a raising hook
\* ends the call in that failure, and the object stays in the bucket under
\* the generated key unless a delete of that key was served.
PutHookAfterTransfer ==
    \A t \in Tasks :
        (task[t].op = "put" /\ (task[t].pc = "post_put" \/ task[t].hooks # <<>>))
            => /\ task[t].thr.raised = "none"
               /\ \E u \in uploads :
                      u.id = task[t].id /\ u.key = task[t].key.str /\ u.data = Read(task[t].obj)
               /\ task[t].key.str \notin deleteReqs
                      => Stored(task[t].key.str, Read(task[t].obj))
               /\ (Done(t) /\ HookRaised(t)) => task[t].result.kind = "HookError"

\* a put_object ended by a raising hook, and a get_object of its key that
\* returned the payload
PutHookFailedWitness ==
    \E t, g \in Tasks :
        /\ task[t].op = "put" /\ Done(t) /\ task[t].result.kind = "HookError"
        /\ task[g].op = "get" /\ Done(g) /\ task[g].result.kind = "ok"
        /\ task[g].key = task[t].key
        /\ task[g].ret.data = Read(task[t].obj)

\* C7: concurrent put_object calls, also with the same filename, use
\* pairwise distinct keys; no upload replaces another call's object; every
\* uploaded object stays in the bucket under its own key with its own
\* payload until a delete of that key is served, and a get_object that
\* returns a blob returns the payload uploaded under the key it asked for.
PutsIndependent ==
    /\ \A t1, t2 \in Tasks :
           (t1 # t2 /\ task[t1].op = "put" /\ task[t2].op = "put")
               => task[t1].key # task[t2].key
    /\ \A u1, u2 \in uploads : u1.id # u2.id => u1.key # u2.key
    /\ \A u \in uploads : u.key \notin deleteReqs => Stored(u.key, u.data)
    /\ \A t \in Tasks :
           (task[t].op = "get" /\ task[t].pc \in {"get_await", "done"} /\ task[t].thr.raised = "none")
               => \E u \in uploads : u.key = task[t].key.str /\ u.data = task[t].thr.val.data

\* two put_object calls with the same filename and different payloads whose
\* uploads were both served before either call resumed
ConcurrentPutsWitness ==
    \E t1, t2 \in Tasks :
        /\ t1 # t2
        /\ task[t1].pc = "put_await" /\ task[t2].pc = "put_await"
        /\ task[t1].filename = task[t2].filename
        /\ task[t1].obj # task[t2].obj
        /\ Stored(task[t1].key.str, Read(task[t1].obj))
        /\ Stored(task[t2].key.str, Read(task[t2].obj))

\* C8: the key of every put_object call is 32 lowercase hexadecimal
\* characters, one '-', then the filename unmodified, so dropping the first
\* 33 characters gives the filename back.
KeyFormat ==
    \A t \in Tasks :
        task[t].op = "put"
            => LET k == task[t].key.str
                   f == task[t].filename IN
                /\ IsStr(task[t].key)
                /\ Len(k) = 2 * TokenBytes + 1 + Len(f)
                /\ \A i \in 1..(2 * TokenBytes) : k[i] \in LowerHex
                /\ k[2 * TokenBytes + 1] = "-"
                /\ SubSeq(k, 2 * TokenBytes + 2, Len(k)) = f

\* keys were generated for an empty filename and for one that contains '-'
KeyFormatWitness ==
    \E t1, t2 \in Tasks :
        /\ task[t1].op = "put" /\ task[t1].filename = <<>>
        /\ task[t2].op = "put" /\ task[t2].filename = <<"a", "-", "b">>

\* C9: no call issues more than one request to the client or generates more
\* than one key; a put_object call generates exactly one; once the request
\* of a call has failed the call only ends, in failure, with no second
\* request.
NoRetries ==
    \A t \in Tasks :
        /\ task[t].reqs <= 1
        /\ task[t].keysGen = (IF task[t].op = "put" THEN 1 ELSE 0)
        /\ task[t].thr.raised \notin {"none", "pending"}
              => /\ task[t].pc \in {"put_await", "get_await", "delete_await", "done"}
                 /\ task[t].reqs = 1
                 /\ Done(t) => task[t].result.kind \notin {"ok", "pending"}

\* a call whose single request failed has ended in StorageError
FailedRequestWitness ==
    \E t \in Tasks :
        /\ Done(t)
        /\ task[t].op = "put"
        /\ task[t].thr.raised = "ClientError"
        /\ task[t].result.kind = "StorageError"
        /\ task[t].reqs = 1

\* C10: in put_object and delete_object the post hook runs at most once per
\* call, with the key given to the perform step, and only after the perform
\* step succeeded; a failed perform step ends the call in that failure with
\* no hook invoked; the hook step never changes the bucket, so an object
\* deleted before a raising post_delete_object stays deleted.
HookLifecycle ==
    /\ [](\A t \in Tasks :
            /\ Len(task[t].hooks) <= 1
            /\ \A i \in 1..Len(task[t].hooks) :
                   /\ task[t].hooks[i].key = task[t].key
                   /\ task[t].hooks[i].hook =
                          (IF task[t].op = "put" THEN "post_put_object" ELSE "post_delete_object")
                   /\ task[t].op \in {"put", "delete"}
            /\ (task[t].pc \in {"post_put", "post_delete"} \/ task[t].hooks # <<>>)
                  => task[t].thr.raised = "none" /\ task[t].reqs = 1
            /\ (Done(t) /\ task[t].op \in {"put", "delete"}
                        /\ task[t].thr.raised \notin {"none", "pending"})
                  => /\ task[t].hooks = <<>>
                     /\ task[t].result.kind =
                            IF task[t].thr.raised = "ClientError" THEN "StorageError"
                                                                  ELSE task[t].thr.raised)
    /\ [][\A t \in Tasks :
            (task[t].pc \in {"post_put", "post_delete"} /\ task'[t] # task[t])
                => store' = store]_vars

\* a delete_object that removed a stored object and was then ended by a
\* raising hook; the object is gone
DeleteHookFailedWitness ==
    \E t \in Tasks :
        /\ task[t].op = "delete" /\ Done(t)
        /\ task[t].result.kind = "HookError"
        /\ task[t].thr.hit
        /\ task[t].key.str \notin DOMAIN store

====
